---- MODULE Spec2Model ----
(***************************************************************************)
(* ai-travel-agent: the booking cart (src/booking_handler.py) and the plan *)
(* requester (src/travel_agent.py).                                        *)
(*                                                                         *)
(* Text is modelled as a sequence of one-character strings, so that        *)
(* upper(), title(), strip(), split() and the {:04d} format are computed   *)
(* character by character as Python computes them.  Prices, budgets and    *)
(* costs are integers (exact arithmetic; the float rounding of Python's    *)
(* += and -= is outside the model).                                        *)
(***************************************************************************)
EXTENDS Integers, Sequences, FiniteSets, TLC

VARIABLES
    bookings,    \* BookingHandler.bookings
    total_cost,  \* BookingHandler.total_cost
    cartOp,      \* the last BookingHandler call: its name, argument and return value
    pc,          \* where the TravelAgent call in progress stands
    prefs,       \* the TravelPreferences of the call in progress
    now,         \* the datetime.now() that validate_preferences read
    errors,      \* the list validate_preferences returned
    calls,       \* chat.completions.create calls issued by the call in progress
    request,     \* the last request handed to chat.completions.create
    response,    \* what chat.completions.create did with it
    outcome,     \* what the TravelAgent call returned or raised
    travel_plan  \* st.session_state.travel_plan, the session's current plan

cartVars == <<bookings, total_cost, cartOp>>
planVars == <<pc, prefs, now, errors, calls, request, response, outcome, travel_plan>>
vars == <<bookings, total_cost, cartOp, pc, prefs, now, errors, calls, request, response, outcome,
          travel_plan>>

(***************************************************************************)
(* Bounds of the exploration.                                              *)
(***************************************************************************)
\* longest cart the small-cart exploration builds
MaxCart == 3
\* size of the filled cart the large-cart specification also starts from;
\* one further add is explored on top of it
BigCart == 9999

(***************************************************************************)
(* Characters.                                                             *)
(***************************************************************************)
LowerLetters == <<"a","b","c","d","e","f","g","h","i","j","k","l","m",
                  "n","o","p","q","r","s","t","u","v","w","x","y","z">>
UpperLetters == <<"A","B","C","D","E","F","G","H","I","J","K","L","M",
                  "N","O","P","Q","R","S","T","U","V","W","X","Y","Z">>
DigitChars == <<"0","1","2","3","4","5","6","7","8","9">>

\* str.upper() on one character
UpperChar(c) ==
    IF \E k \in 1..26 : LowerLetters[k] = c
    THEN UpperLetters[CHOOSE k \in 1..26 : LowerLetters[k] = c]
    ELSE c

\* str.lower() on one character
LowerChar(c) ==
    IF \E k \in 1..26 : UpperLetters[k] = c
    THEN LowerLetters[CHOOSE k \in 1..26 : UpperLetters[k] = c]
    ELSE c

IsLetter(c) == \E k \in 1..26 : LowerLetters[k] = c \/ UpperLetters[k] = c

\* str.upper()
Upper(s) == [i \in 1..Len(s) |-> UpperChar(s[i])]

\* str.title(): a letter that follows a non-letter (or starts the text) is
\* upper-cased, every other letter is lower-cased
Title(s) ==
    [i \in 1..Len(s) |->
        IF i = 1 \/ ~IsLetter(s[i-1]) THEN UpperChar(s[i]) ELSE LowerChar(s[i])]

\* minimum field width of the {:04d} format
RefWidth == 4

\* the decimal digits of a natural number, most significant first
RECURSIVE Decimal(_)
Decimal(n) ==
    IF n < 10 THEN <<DigitChars[n + 1]>>
    ELSE Decimal(n \div 10) \o <<DigitChars[(n % 10) + 1]>>

\* left-pad with zeros up to a minimum width; longer text is left as it is
RECURSIVE ZeroPad(_, _)
ZeroPad(s, w) == IF Len(s) >= w THEN s ELSE ZeroPad(<<"0">> \o s, w)

\* f"{n:04d}" for n >= 0
Format04d(n) == ZeroPad(Decimal(n), RefWidth)

(***************************************************************************)
(* BookingItem and the values the callers pass.                            *)
(***************************************************************************)
None == <<"N","o","n","e">>

Flight == <<"f","l","i","g","h","t">>
Hotel == <<"h","o","t","e","l">>
Activity == <<"a","c","t","i","v","i","t","y">>
ItemTypes == {Flight, Hotel}
ItemPrices == {120, 450}
ItemNames == {<<"A">>}
ItemDate == <<"2","0","2","6","-","1","2","-","0","1">>

\* a BookingItem as its constructor leaves it: booking_reference = None
BookingItem(t, n, p) ==
    [type |-> t, name |-> n, date |-> ItemDate, price |-> p,
     details |-> <<>>, booking_reference |-> None]

NewItems == {BookingItem(t, n, p) : t \in ItemTypes, n \in ItemNames, p \in ItemPrices}

(***************************************************************************)
(* BookingHandler.                                                         *)
(***************************************************************************)
\* the reference add_booking computes for an item entering a cart
BookingRefMissingPlusOne(item, cart) ==
    Upper(item.type) \o <<"-">> \o Format04d(Len(cart))

BookingRef(item, cart) ==
    Upper(item.type) \o <<"-">> \o Format04d(Len(cart) + 1)

\* the positions of the bookings that carry a reference
Matches(cart, ref) == {i \in 1..Len(cart) : cart[i].booking_reference = ref}

\* the scan of remove_booking: the position at which the loop over
\* enumerate(self.bookings) first meets the reference; 0 when the loop ends
\* without a match
LastMatch(cart, ref) ==
    IF Matches(cart, ref) = {} THEN 0
    ELSE CHOOSE i \in Matches(cart, ref) : \A j \in Matches(cart, ref) : j <= i

FirstMatch(cart, ref) ==
    IF Matches(cart, ref) = {} THEN 0
    ELSE CHOOSE i \in Matches(cart, ref) : \A j \in Matches(cart, ref) : i <= j

\* del self.bookings[i]
DelAt(cart, i) == SubSeq(cart, 1, i - 1) \o SubSeq(cart, i + 1, Len(cart))

\* the projection get_booking_summary makes of one booking
SummaryEntry(b) ==
    [reference |-> b.booking_reference, type |-> b.type, name |-> b.name,
     date |-> b.date, price |-> b.price, details |-> b.details]

ConfPrefix == <<"C","O","N","F","-">>
ConfirmedSuffix == <<" ","b","o","o","k","i","n","g"," ",
                     "c","o","n","f","i","r","m","e","d">>

\* the record simulate_booking makes of one booking
BookingResult(b) ==
    [reference |-> b.booking_reference,
     status |-> "confirmed",
     confirmation_code |-> ConfPrefix \o b.booking_reference,
     message |-> Title(b.type) \o ConfirmedSuffix]

\* the value simulate_booking returns
SimulateResult(cart, total) ==
    IF Len(cart) = 0
    THEN [success |-> FALSE, message |-> "No items to book"]
    ELSE [success |-> TRUE,
          total_cost |-> total,
          bookings |-> [i \in 1..Len(cart) |-> BookingResult(cart[i])],
          message |-> <<"Successfully booked", Len(cart), "items">>]

\* the references remove_booking is called with: those of present and of
\* absent bookings
RemoveRefs ==
    {Upper(t) \o <<"-">> \o Format04d(k) : t \in ItemTypes, k \in 1..(MaxCart + 1)}

\* the cart may still grow
CanGrow(cart) ==
    \/ Len(cart) < MaxCart
    \/ Len(cart) = BigCart

\* total_cost after add_booking
TotalAfterAdd(total, item) == total + item.price

\* total_cost after a successful remove_booking
TotalAfterRemoveStale(total, b) == total

TotalAfterRemove(total, b) == total - b.price

add_booking(item) ==
    /\ CanGrow(bookings)
    /\ LET booking_ref == BookingRef(item, bookings)
       IN  /\ bookings' = Append(bookings, [item EXCEPT !.booking_reference = booking_ref])
           /\ total_cost' = TotalAfterAdd(total_cost, item)
           /\ cartOp' = [op |-> "add", arg |-> item, ret |-> booking_ref]
    /\ UNCHANGED planVars

remove_booking(ref) ==
    LET i == FirstMatch(bookings, ref)
    IN  IF i # 0
        THEN /\ total_cost' = TotalAfterRemove(total_cost, bookings[i])
             /\ bookings' = DelAt(bookings, i)
             /\ cartOp' = [op |-> "remove", arg |-> ref, ret |-> TRUE]
             /\ UNCHANGED planVars
        ELSE /\ UNCHANGED <<bookings, total_cost, planVars>>
             /\ cartOp' = [op |-> "remove", arg |-> ref, ret |-> FALSE]

get_booking_summary ==
    /\ cartOp' = [op |-> "summary", arg |-> <<>>,
                  ret |-> [total_items |-> Len(bookings),
                           total_cost |-> total_cost,
                           bookings |-> [i \in 1..Len(bookings) |-> SummaryEntry(bookings[i])]]]
    /\ UNCHANGED <<bookings, total_cost, planVars>>

\* a checkout that empties the cart
simulate_booking_clearing ==
    /\ cartOp' = [op |-> "confirm", arg |-> <<>>,
                  ret |-> SimulateResult(bookings, total_cost)]
    /\ bookings' = <<>>
    /\ total_cost' = 0
    /\ UNCHANGED planVars

simulate_booking ==
    /\ cartOp' = [op |-> "confirm", arg |-> <<>>,
                  ret |-> SimulateResult(bookings, total_cost)]
    /\ UNCHANGED <<bookings, total_cost, planVars>>

\* BookingHandler.__init__
CartInit ==
    /\ bookings = <<>>
    /\ total_cost = 0
    /\ cartOp = [op |-> "init", arg |-> <<>>, ret |-> <<>>]

Add == \E item \in NewItems : add_booking(item)
Remove == \E ref \in RemoveRefs : remove_booking(ref)
Summarize == get_booking_summary
Confirm == simulate_booking

CartNext == Add \/ Remove \/ Summarize \/ Confirm

\* the cart after n calls of add_booking with the same activity item and no
\* other call: the i-th call met a cart of i - 1 bookings
FilledCart(n) ==
    [i \in 1..n |->
        [BookingItem(Activity, <<"A">>, 120) EXCEPT
            !.booking_reference = Upper(Activity) \o <<"-">> \o Format04d((i - 1) + 1)]]

CartInitBig ==
    /\ bookings = FilledCart(BigCart)
    /\ total_cost = 120 * BigCart
    /\ cartOp = [op |-> "init", arg |-> <<>>, ret |-> <<>>]

(***************************************************************************)
(* Text helpers of the plan requester.                                     *)
(***************************************************************************)
Whitespace == {" ", "\n", "\t", "\r"}

\* str.lstrip(chars) and str.rstrip(chars)
RECURSIVE LStrip(_, _)
LStrip(s, chars) ==
    IF Len(s) > 0 /\ s[1] \in chars THEN LStrip(Tail(s), chars) ELSE s

RECURSIVE RStrip(_, _)
RStrip(s, chars) ==
    IF Len(s) > 0 /\ s[Len(s)] \in chars
    THEN RStrip(SubSeq(s, 1, Len(s) - 1), chars)
    ELSE s

\* str.strip(chars): both ends
Strip(s, chars) == RStrip(LStrip(s, chars), chars)

\* str.split(sep) for a one-character separator: every separator cuts, so
\* empty pieces are kept
RECURSIVE Split(_, _)
Split(s, sep) ==
    IF \A i \in 1..Len(s) : s[i] # sep THEN <<s>>
    ELSE LET i == CHOOSE k \in 1..Len(s) :
                      s[k] = sep /\ \A j \in 1..(k - 1) : s[j] # sep
         IN  <<SubSeq(s, 1, i - 1)>> \o Split(SubSeq(s, i + 1, Len(s)), sep)

IsDigit(c) == \E k \in 1..10 : DigitChars[k] = c

DigitValue(c) == (CHOOSE k \in 1..10 : DigitChars[k] = c) - 1

\* int() of a text of digits
RECURSIVE IntOf(_)
IntOf(s) ==
    IF Len(s) = 0 THEN 0
    ELSE 10 * IntOf(SubSeq(s, 1, Len(s) - 1)) + DigitValue(s[Len(s)])

AllDigits(s) == \A i \in 1..Len(s) : IsDigit(s[i])

(***************************************************************************)
(* datetime.strptime(text, "%Y-%m-%d") and datetime comparison.            *)
(***************************************************************************)
\* %Y: exactly four digits
YearField(s) == Len(s) = 4 /\ AllDigits(s)

\* %m: 1[0-2] | 0[1-9] | [1-9]
MonthField(s) ==
    /\ Len(s) \in {1, 2}
    /\ AllDigits(s)
    /\ IntOf(s) \in 1..12

\* %d: 3[01] | [12]\d | 0[1-9] | [1-9] | " "[1-9]
DayField(s) ==
    \/ Len(s) \in {1, 2} /\ AllDigits(s) /\ IntOf(s) \in 1..31
    \/ Len(s) = 2 /\ s[1] = " " /\ IsDigit(s[2]) /\ IntOf(Tail(s)) \in 1..9

IsLeap(y) == y % 4 = 0 /\ (y % 100 # 0 \/ y % 400 = 0)

DaysInMonth(y, m) ==
    IF m = 2 THEN (IF IsLeap(y) THEN 29 ELSE 28)
    ELSE IF m \in {4, 6, 9, 11} THEN 30 ELSE 31

RECURSIVE DaysBeforeMonth(_, _)
DaysBeforeMonth(y, m) ==
    IF m = 1 THEN 0 ELSE DaysBeforeMonth(y, m - 1) + DaysInMonth(y, m - 1)

DaysBeforeYear(y) ==
    (y - 1) * 365 + ((y - 1) \div 4) - ((y - 1) \div 100) + ((y - 1) \div 400)

\* date.toordinal()
Ordinal(y, m, d) == DaysBeforeYear(y) + DaysBeforeMonth(y, m) + d

\* the datetime strptime returns (midnight of the day), or the ValueError it
\* raises for text that does not match the format or names no calendar day
Strptime(text) ==
    LET parts == Split(text, "-")
    IN  IF Len(parts) # 3 THEN [ok |-> FALSE]
        ELSE IF ~(YearField(parts[1]) /\ MonthField(parts[2]) /\ DayField(parts[3]))
        THEN [ok |-> FALSE]
        ELSE LET y == IntOf(parts[1])
                 m == IntOf(parts[2])
                 d == IntOf(LStrip(parts[3], {" "}))
             IN  IF y < 1 \/ d > DaysInMonth(y, m) THEN [ok |-> FALSE]
                 ELSE [ok |-> TRUE, dt |-> [day |-> Ordinal(y, m, d), us |-> 0]]

\* datetime < datetime
DtLess(a, b) == a.day < b.day \/ (a.day = b.day /\ a.us < b.us)

\* datetime <= datetime
DtLessEq(a, b) == a.day < b.day \/ (a.day = b.day /\ a.us <= b.us)

(***************************************************************************)
(* TravelPreferences and the values the callers pass.                      *)
(***************************************************************************)
Chars(y, m, d) == y \o <<"-">> \o m \o <<"-">> \o d

Y2026 == <<"2","0","2","6">>

DateTexts ==
    { Chars(Y2026, <<"1","1">>, <<"0","4">>),
      Chars(Y2026, <<"1","1">>, <<"0","5">>),
      Chars(Y2026, <<"1","1">>, <<"6">>),
      Chars(Y2026, <<"1","2">>, <<"0","5">>),
      Chars(Y2026, <<"0","2">>, <<"3","0">>),
      <<"1","1">> \o <<"/">> \o <<"0","5">> \o <<"/">> \o Y2026 }

Destinations == { <<"P","a","r","i","s">>, <<" ">>, <<>> }
Budgets == {0, 2000}
TravelerCounts == {0, 2}

TravelPreferences(dest, dep, ret, budget, travelers) ==
    [destination |-> dest, departure_date |-> dep, return_date |-> ret,
     budget |-> budget, travelers |-> travelers,
     accommodation_type |-> "hotel",
     activities |-> <<"Museums">>,
     dietary_restrictions |-> <<>>]

AllPreferences ==
    { TravelPreferences(dest, dep, ret, b, t) :
        dest \in Destinations, dep \in DateTexts, ret \in DateTexts,
        b \in Budgets, t \in TravelerCounts }

\* the instants datetime.now() returns: 5 November 2026, at midnight to the
\* microsecond and at 00:33:20 (us: microseconds since midnight)
Clock ==
    { [day |-> Ordinal(2026, 11, 5), us |-> 0],
      [day |-> Ordinal(2026, 11, 5), us |-> 2000000000] }

(***************************************************************************)
(* TravelAgent.validate_preferences.                                       *)
(***************************************************************************)
MsgPast == "Departure date cannot be in the past"
MsgOrder == "Return date must be after departure date"
MsgFormat == "Please use YYYY-MM-DD format for dates"
MsgBudget == "Budget must be greater than 0"
MsgTravelers == "Number of travelers must be at least 1"
MsgDestination == "Destination cannot be empty"

\* the try block: what it appends to errors
DateErrors(p, t) ==
    LET departure == Strptime(p.departure_date)
        return_date == Strptime(p.return_date)
    IN  IF ~departure.ok \/ ~return_date.ok THEN <<MsgFormat>>
        ELSE (IF DtLess(departure.dt, t) THEN <<MsgPast>> ELSE <<>>)
             \o (IF DtLessEq(return_date.dt, departure.dt) THEN <<MsgOrder>> ELSE <<>>)

validate_preferences(p, t) ==
    DateErrors(p, t)
    \o (IF p.budget <= 0 THEN <<MsgBudget>> ELSE <<>>)
    \o (IF p.travelers <= 0 THEN <<MsgTravelers>> ELSE <<>>)
    \o (IF Strip(p.destination, Whitespace) = <<>> THEN <<MsgDestination>> ELSE <<>>)

(***************************************************************************)
(* json.loads on the text the generation service returns.  The text is a   *)
(* sequence of JSON lexemes; a value is a number, null, a string, a list   *)
(* of at most one number, or an object whose members hold such values.     *)
(***************************************************************************)
Tok(t) == [t |-> t]
Str(v) == [t |-> "str", v |-> v]
Num(n) == [t |-> "num", v |-> n]

PyList(v) == [py |-> "list", val |-> v]
PyInt(n) == [py |-> "int", val |-> n]

\* a number, null, a string or a list
ParseSimple(toks) ==
    IF Len(toks) = 1 /\ toks[1].t = "num" THEN [ok |-> TRUE, v |-> PyInt(toks[1].v)]
    ELSE IF Len(toks) = 1 /\ toks[1].t = "null"
    THEN [ok |-> TRUE, v |-> [py |-> "NoneType", val |-> <<>>]]
    ELSE IF Len(toks) = 1 /\ toks[1].t = "str"
    THEN [ok |-> TRUE, v |-> [py |-> "str", val |-> toks[1].v]]
    ELSE IF Len(toks) = 2 /\ toks[1].t = "[" /\ toks[2].t = "]"
    THEN [ok |-> TRUE, v |-> PyList(<<>>)]
    ELSE IF Len(toks) = 3 /\ toks[1].t = "[" /\ toks[2].t = "num" /\ toks[3].t = "]"
    THEN [ok |-> TRUE, v |-> PyList(<<toks[2].v>>)]
    ELSE [ok |-> FALSE]

\* the members of an object: the lexemes between its braces, cut at commas
RECURSIVE SplitMembers(_)
SplitMembers(toks) ==
    IF \A i \in 1..Len(toks) : toks[i].t # "," THEN <<toks>>
    ELSE LET i == CHOOSE k \in 1..Len(toks) :
                      toks[k].t = "," /\ \A j \in 1..(k - 1) : toks[j].t # ","
         IN  <<SubSeq(toks, 1, i - 1)>> \o SplitMembers(SubSeq(toks, i + 1, Len(toks)))

\* "key": value
MemberOk(m) ==
    /\ Len(m) >= 3
    /\ m[1].t = "str"
    /\ m[2].t = ":"
    /\ ParseSimple(SubSeq(m, 3, Len(m))).ok

\* the value json.loads returns, or the JSONDecodeError it raises
JsonLoads(toks) ==
    IF Len(toks) >= 2 /\ toks[1].t = "{" /\ toks[Len(toks)].t = "}"
    THEN IF Len(toks) = 2
         THEN [ok |-> TRUE, v |-> [py |-> "dict", val |-> <<>>]]
         ELSE LET ms == SplitMembers(SubSeq(toks, 2, Len(toks) - 1))
              IN  IF \E i \in 1..Len(ms) : ~MemberOk(ms[i]) THEN [ok |-> FALSE]
                  ELSE LET keys == {ms[i][1].v : i \in 1..Len(ms)}
                           last(k) == CHOOSE i \in 1..Len(ms) :
                                          /\ ms[i][1].v = k
                                          /\ \A j \in 1..Len(ms) : ms[j][1].v = k => j <= i
                       IN  [ok |-> TRUE,
                            v |-> [py |-> "dict",
                                   val |-> [k \in keys |->
                                               ParseSimple(SubSeq(ms[last(k)], 3,
                                                                  Len(ms[last(k)]))).v]]]
    ELSE IF Len(toks) = 0 THEN [ok |-> FALSE]
    ELSE ParseSimple(toks)

\* dict.get(key, default)
Get(d, key, default) == IF key \in DOMAIN d.val THEN d.val[key] ELSE default

(***************************************************************************)
(* The generation service: what chat.completions.create does.              *)
(***************************************************************************)
ServiceErrors == {"Request timed out.", "Incorrect API key provided"}

Raises(msg) == [status |-> "error", error |-> msg, has_content |-> FALSE, content |-> <<>>]
Returns(content) == [status |-> "ok", error |-> "", has_content |-> TRUE, content |-> content]
\* message.content is None
ReturnsNone == [status |-> "ok", error |-> "", has_content |-> FALSE, content |-> <<>>]

PlanTexts ==
    { <<Tok("word")>>,
      <<Tok("{")>>,
      <<Tok("{"), Str("itinerary"), Tok(":"), Tok("["), Tok("]"), Tok(","), Tok("}")>>,
      <<Tok("["), Tok("]")>>,
      <<Num(42)>>,
      <<Tok("null")>>,
      <<Tok("{"), Tok("}")>>,
      <<Tok("{"), Str("itinerary"), Tok(":"), Tok("["), Num(1), Tok("]"), Tok(","),
        Str("estimated_total_cost"), Tok(":"), Num(2500), Tok("}")>>,
      <<Tok("{"), Str("itinerary"), Tok(":"), Tok("["), Num(1), Tok("]"), Tok(","),
        Str("accommodation_suggestions"), Tok(":"), Tok("["), Num(2), Tok("]"), Tok(","),
        Str("flight_suggestions"), Tok(":"), Tok("["), Num(3), Tok("]"), Tok(","),
        Str("estimated_total_cost"), Tok(":"), Num(2500), Tok(","),
        Str("recommendations"), Tok(":"), Tok("["), Num(4), Tok("]"), Tok("}")>> }

PlanResponses ==
    {Raises(e) : e \in ServiceErrors} \cup {Returns(c) : c \in PlanTexts} \cup {ReturnsNone}

(***************************************************************************)
(* TravelAgent.create_travel_plan.                                         *)
(***************************************************************************)
Raise(msg) == [raised |-> TRUE, exc |-> "ValueError", message |-> msg]
Return(v) == [raised |-> FALSE, value |-> v]

MsgValidation == "Validation errors: "
MsgParse == "Failed to parse travel plan. Please try again."
MsgGeneric == "Error generating travel plan: "

\* `if validation_errors:`
ValidationBlocksNever(errs) == FALSE

ValidationBlocks(errs) == errs # <<>>

\* the request of the try block (temperature in tenths)
PlanRequest(p) ==
    [model |-> "gpt-4", temperature |-> 7, max_tokens |-> 2000,
     destination |-> p.destination,
     departure_date |-> p.departure_date,
     return_date |-> p.return_date,
     duration |-> Strptime(p.return_date).dt.day - Strptime(p.departure_date).dt.day,
     budget |-> p.budget, travelers |-> p.travelers,
     accommodation_type |-> p.accommodation_type,
     activities |-> p.activities,
     dietary_restrictions |->
         IF p.dietary_restrictions = <<>> THEN <<"None">> ELSE p.dietary_restrictions]

TravelPlan(p, plan_data) ==
    [destination |-> p.destination,
     itinerary |-> Get(plan_data, "itinerary", PyList(<<>>)),
     accommodation_suggestions |-> Get(plan_data, "accommodation_suggestions", PyList(<<>>)),
     flight_suggestions |-> Get(plan_data, "flight_suggestions", PyList(<<>>)),
     estimated_cost |-> Get(plan_data, "estimated_total_cost", PyInt(0)),
     recommendations |-> Get(plan_data, "recommendations", PyList(<<>>))]

\* the try block after the service answered: the plan returned or the
\* ValueError raised
PlanOutcome(p, r) ==
    IF r.status = "error" THEN Raise(<<MsgGeneric, r.error>>)
    ELSE IF ~r.has_content
    THEN Raise(<<MsgGeneric, "the JSON object must be str, bytes or bytearray, not NoneType">>)
    ELSE LET parsed == JsonLoads(r.content)
         IN  IF ~parsed.ok THEN Raise(<<MsgParse>>)
             ELSE IF parsed.v.py # "dict"
             THEN Raise(<<MsgGeneric, <<parsed.v.py, "object has no attribute 'get'">>>>)
             ELSE Return(TravelPlan(p, parsed.v))

Nil == [nil |-> TRUE]

\* no TravelAgent call in progress
PlanIdle ==
    /\ pc = "Idle"
    /\ prefs = Nil
    /\ now = Nil
    /\ errors = <<>>
    /\ calls = 0
    /\ request = Nil
    /\ response = Nil
    /\ outcome = Nil

\* create_travel_plan is entered
create_travel_plan(p) ==
    /\ pc = "Idle"
    /\ pc' = "Validating"
    /\ prefs' = p
    /\ UNCHANGED <<now, errors, calls, request, response, outcome, cartVars, travel_plan>>

\* validate_preferences runs; a non-empty list raises before any request
Validate(t) ==
    /\ pc = "Validating"
    /\ now' = t
    /\ errors' = validate_preferences(prefs, t)
    /\ IF ValidationBlocks(errors')
       THEN /\ pc' = "Failed"
            /\ outcome' = Raise(<<MsgValidation, errors'>>)
       ELSE /\ pc' = "Requesting"
            /\ UNCHANGED outcome
    /\ UNCHANGED <<prefs, calls, request, response, cartVars, travel_plan>>

\* the duration is computed, then the try block runs: one request, and its
\* answer parsed
Request(r) ==
    /\ pc = "Requesting"
    /\ IF ~Strptime(prefs.departure_date).ok \/ ~Strptime(prefs.return_date).ok
       THEN /\ pc' = "Failed"
            /\ outcome' = Raise(<<"strptime">>)
            /\ UNCHANGED <<calls, request, response>>
       ELSE /\ calls' = calls + 1
            /\ request' = PlanRequest(prefs)
            /\ response' = r
            /\ outcome' = PlanOutcome(prefs, r)
            /\ pc' = IF outcome'.raised THEN "Failed" ELSE "Succeeded"
    /\ UNCHANGED <<prefs, now, errors, cartVars, travel_plan>>

(***************************************************************************)
(* TravelAgent.get_travel_tips.                                            *)
(***************************************************************************)
\* longest tip text the service returns here
MaxTipChars == 4

TipAlphabet == {"a", "-", " ", "\n"}

TipTexts == UNION {[1..n -> TipAlphabet] : n \in 0..MaxTipChars}

TipResponses ==
    {Raises(e) : e \in ServiceErrors} \cup {Returns(c) : c \in TipTexts} \cup {ReturnsNone}

MsgTips == "Error getting travel tips: "

\* [f(x) for x in xs if keep(x)], for the comprehension of get_travel_tips
RECURSIVE TipList(_)
TipList(tips) ==
    IF Len(tips) = 0 THEN <<>>
    ELSE (IF Strip(tips[1], Whitespace) # <<>>
          THEN <<Strip(Strip(tips[1], {"-", " "}), Whitespace)>>
          ELSE <<>>)
         \o TipList(Tail(tips))

\* the list get_travel_tips returns
TipsResult(r) ==
    IF r.status = "error" THEN <<<<MsgTips, r.error>>>>
    ELSE IF ~r.has_content
    THEN <<<<MsgTips, "'NoneType' object has no attribute 'strip'">>>>
    ELSE TipList(Split(Strip(r.content, Whitespace), "\n"))

get_travel_tips(dest, r) ==
    /\ pc = "Idle"
    /\ pc' = "TipsDone"
    /\ calls' = calls + 1
    /\ request' = [model |-> "gpt-3.5-turbo", temperature |-> 5, max_tokens |-> 800,
                   destination |-> dest]
    /\ response' = r
    /\ outcome' = Return(TipsResult(r))
    /\ UNCHANGED <<prefs, now, errors, cartVars, travel_plan>>

\* the call is over: the caller has its result
Finish ==
    /\ pc \in {"Failed", "Succeeded", "TipsDone"}
    /\ pc' = "Idle"
    /\ prefs' = Nil
    /\ now' = Nil
    /\ errors' = <<>>
    /\ calls' = 0
    /\ request' = Nil
    /\ response' = Nil
    /\ outcome' = Nil
    /\ UNCHANGED <<cartVars, travel_plan>>

CreatePlan == \E p \in AllPreferences : create_travel_plan(p)
ValidateStep == \E t \in Clock : Validate(t)
RequestStep == \E r \in PlanResponses : Request(r)
GetTips == \E r \in TipResponses : get_travel_tips(<<"P","a","r","i","s">>, r)

PlanNext == CreatePlan \/ ValidateStep \/ RequestStep \/ GetTips \/ Finish

(***************************************************************************)
(* Specifications.                                                         *)
(***************************************************************************)
\* the session state the script sets up on its first run
SessionInit == travel_plan = Nil

Init == CartInit /\ PlanIdle /\ SessionInit
Next == CartNext \/ PlanNext
Spec == Init /\ [][Next]_vars

\* the cart alone, from the empty cart
SpecCart == Init /\ [][CartNext]_vars
\* the cart alone, from the empty cart and from a cart of BigCart bookings
InitBig == (CartInit \/ CartInitBig) /\ PlanIdle /\ SessionInit
SpecBig == InitBig /\ [][CartNext]_vars
\* the plan requester alone
SpecPlan == Init /\ [][PlanNext]_vars

(***************************************************************************)
(* The session (src/main.py): one handler runs at a time, so the cart      *)
(* handlers act only while no TravelAgent call is in progress.  The        *)
(* suggestions of a plan are opaque here; the items a plan offers take     *)
(* their prices from ItemPrices.                                           *)
(***************************************************************************)
\* longest cart the session exploration builds
MaxSessionCart == 1

\* date_input values as strftime("%Y-%m-%d") writes them
Date1105 == Chars(Y2026, <<"1","1">>, <<"0","5">>)
Date1106 == Chars(Y2026, <<"1","1">>, <<"0","6">>)
Date1205 == Chars(Y2026, <<"1","2">>, <<"0","5">>)

\* the preferences the form submits: a destination that is not the empty
\* text, a departure from today on, a return from tomorrow on, the default
\* budget and traveler count
SessionPreferences ==
    { TravelPreferences(dest, dep, ret, 2000, 2) :
        dest \in {<<"P","a","r","i","s">>, <<" ">>},
        dep \in {Date1105, Date1205},
        ret \in {Date1106, Date1205} }

SessionTipResponses ==
    {Raises(e) : e \in ServiceErrors} \cup {Returns(<<"-"," ","a">>), ReturnsNone}

\* the slot after the submit handler: the assignment is skipped when
\* create_travel_plan raises
StoredPlanLostOnFailure(old, o) == IF o.raised THEN Nil ELSE o.value

StoredPlan(old, o) == IF o.raised THEN old ELSE o.value

\* the form is submitted with a destination: create_travel_plan is called
Submit == \E p \in SessionPreferences : create_travel_plan(p)

\* create_travel_plan has returned or raised: the handler stores the plan or
\* reports the error
SubmitDone ==
    /\ pc \in {"Failed", "Succeeded"}
    /\ travel_plan' = StoredPlan(travel_plan, outcome)
    /\ pc' = "Idle"
    /\ prefs' = Nil
    /\ now' = Nil
    /\ errors' = <<>>
    /\ calls' = 0
    /\ request' = Nil
    /\ response' = Nil
    /\ outcome' = Nil
    /\ UNCHANGED cartVars

\* the tips button of a displayed plan
SessionTips ==
    /\ travel_plan # Nil
    /\ \E r \in SessionTipResponses : get_travel_tips(travel_plan.destination, r)

\* the tips are written out
TipsShown == pc = "TipsDone" /\ Finish

\* an add-to-booking button of a displayed plan: one per suggestion
SessionAdd ==
    /\ pc = "Idle"
    /\ travel_plan # Nil
    /\ Len(bookings) < MaxSessionCart
    /\ \E item \in NewItems :
          /\ item.type = Hotel => travel_plan.accommodation_suggestions.val # <<>>
          /\ item.type = Flight => travel_plan.flight_suggestions.val # <<>>
          /\ add_booking(item)

\* a remove button of the cart sidebar: one per booking
SessionRemove ==
    /\ pc = "Idle"
    /\ \E i \in 1..Len(bookings) : remove_booking(bookings[i].booking_reference)

\* the cart sidebar is drawn
SessionSummary == pc = "Idle" /\ get_booking_summary

\* the proceed-to-booking button, shown for a cart with items
SessionConfirm == pc = "Idle" /\ Len(bookings) > 0 /\ simulate_booking

SessionNext ==
    \/ Submit \/ ValidateStep \/ RequestStep \/ SubmitDone
    \/ SessionTips \/ TipsShown
    \/ SessionAdd \/ SessionRemove \/ SessionSummary \/ SessionConfirm

\* one session of the application
SpecSession == Init /\ [][SessionNext]_vars

(***************************************************************************)
(* Properties of the cart.                                                 *)
(***************************************************************************)
RECURSIVE SumPrices(_)
SumPrices(cart) ==
    IF Len(cart) = 0 THEN 0 ELSE cart[1].price + SumPrices(Tail(cart))

\* a BookingHandler call has just changed the cart or returned
CartStep(op) == cartOp'.op = op /\ cartVars' # cartVars

\* C1: in every state that add, remove, summarize and confirm reach from the
\* empty cart, the running total is the sum of the prices of the bookings in
\* the cart.
C1_TotalIsSumOfPrices == total_cost = SumPrices(bookings)

\* C1's case: an add and a successful remove have both acted and bookings remain
C1_RemovedWithBookingsLeft ==
    /\ cartOp.op = "remove"
    /\ cartOp.ret = TRUE
    /\ Len(bookings) >= 1

\* C2: references are unique within the cart's lifetime, so no two bookings
\* that are in the cart at the same time carry the same reference.
C2_ReferencesUnique ==
    \A i, j \in 1..Len(bookings) :
        i # j => bookings[i].booking_reference # bookings[j].booking_reference

\* C3: remove(reference) deletes exactly the first booking that carries the
\* reference, lowers the total by its price, keeps every other booking, its
\* order and its reference, and returns success; with no such booking it
\* leaves the bookings and the total alone and returns failure.
C3_RemoveFirstMatchOnly ==
    [][CartStep("remove") =>
        LET ref == cartOp'.arg
            hits == {i \in 1..Len(bookings) : bookings[i].booking_reference = ref}
        IN  IF hits # {}
            THEN \E i \in hits :
                    /\ \A j \in hits : i <= j
                    /\ Len(bookings') = Len(bookings) - 1
                    /\ \A k \in 1..(i - 1) : bookings'[k] = bookings[k]
                    /\ \A k \in i..(Len(bookings) - 1) : bookings'[k] = bookings[k + 1]
                    /\ total_cost' = total_cost - bookings[i].price
                    /\ cartOp'.ret = TRUE
            ELSE /\ bookings' = bookings
                 /\ total_cost' = total_cost
                 /\ cartOp'.ret = FALSE]_vars

\* C3's case: a remove succeeded on a cart in which two bookings carried the
\* reference, so a booking with that reference is still in the cart
C3_RemovedOneOfTwo ==
    /\ cartOp.op = "remove"
    /\ cartOp.ret = TRUE
    /\ \E i \in 1..Len(bookings) : bookings[i].booking_reference = cartOp.arg

\* the reference is the upper-cased category, a dash, and a decimal numeral of
\* n; the numeral has exactly RefWidth digits (exact), or at least RefWidth
\* digits and no padding beyond RefWidth
RefShape(ref, item, n, exact) ==
    LET u == Len(item.type)
        d == SubSeq(ref, u + 2, Len(ref))
    IN  /\ Len(ref) >= u + 2
        /\ \A i \in 1..u :
              \E k \in 1..26 : LowerLetters[k] = item.type[i] /\ UpperLetters[k] = ref[i]
        /\ ref[u + 1] = "-"
        /\ AllDigits(d)
        /\ IntOf(d) = n
        /\ IF exact THEN Len(d) = 4
           ELSE /\ Len(d) >= 4
                /\ Len(d) > 4 => d[1] # "0"
                /\ n <= 9999 => Len(d) = 4

\* add(item) appends the item as the last booking, with the reference stored
\* on it and returned
AddAppends(exact) ==
    CartStep("add") =>
        /\ Len(bookings') = Len(bookings) + 1
        /\ \A k \in 1..Len(bookings) : bookings'[k] = bookings[k]
        /\ bookings'[Len(bookings')] =
               [cartOp'.arg EXCEPT !.booking_reference = cartOp'.ret]
        /\ RefShape(cartOp'.ret, cartOp'.arg, Len(bookings) + 1, exact)

\* C4, as stated: add(item) appends the item last and stores and returns the
\* reference <upper-cased category>-<sequence>, the sequence being exactly 4
\* digits, zero-padded, and equal to the cart size before the insertion plus 1.
C4_AddExactlyFourDigits == [][AddAppends(TRUE)]_vars

\* C4, amended: the sequence is the decimal numeral of the cart size before
\* the insertion plus 1, zero-padded to at least 4 digits: exactly 4 digits
\* up to 9999, and the unpadded numeral beyond.
C4_AddAtLeastFourDigits == [][AddAppends(FALSE)]_vars

\* C4's case: an add has acted on a cart of BigCart bookings
C4_AddedToBigCart ==
    /\ cartOp.op = "add"
    /\ Len(bookings) = BigCart + 1
    /\ bookings[Len(bookings)].booking_reference = cartOp.ret

\* C5: confirm() leaves the bookings and the total alone; on the empty cart
\* it returns a failure, otherwise a success with the running total and one
\* record per booking, in cart order, with status confirmed and code
\* CONF-{reference}; a confirm() right after a confirm() returns the same.
C5_ConfirmIsPure ==
    [][CartStep("confirm") =>
        LET r == cartOp'.ret
        IN  /\ bookings' = bookings
            /\ total_cost' = total_cost
            /\ Len(bookings) = 0 => r.success = FALSE
            /\ Len(bookings) > 0 =>
                  /\ r.success = TRUE
                  /\ r.total_cost = total_cost
                  /\ Len(r.bookings) = Len(bookings)
                  /\ \A i \in 1..Len(bookings) :
                        /\ r.bookings[i].reference = bookings[i].booking_reference
                        /\ r.bookings[i].status = "confirmed"
                        /\ r.bookings[i].confirmation_code =
                               <<"C","O","N","F","-">> \o bookings[i].booking_reference
            /\ cartOp.op = "confirm" => r = cartOp.ret]_vars

\* C5's case: confirm() has returned a success for a cart of several bookings
C5_ConfirmedSeveral ==
    /\ cartOp.op = "confirm"
    /\ cartOp.ret.success
    /\ Len(cartOp.ret.bookings) >= 2
    /\ Len(bookings) = Len(cartOp.ret.bookings)

(***************************************************************************)
(* Properties of the plan requester.                                       *)
(***************************************************************************)
InSeq(x, s) == \E i \in 1..Len(s) : s[i] = x

\* the failure generatePlan ended in, read off the ValueError it raised
FailureKind(o) ==
    IF o.message[1] = MsgValidation THEN "validation"
    ELSE IF o.message[1] = MsgParse THEN "parse"
    ELSE IF o.message[1] = MsgGeneric THEN "transport"
    ELSE "other"

\* C6: one generatePlan goes Idle -> Validating -> (Failed(validation) |
\* Requesting) -> (Failed(parse|transport) | Succeeded); it issues no
\* generation-service call and fails with the validation error when validate()
\* returns a non-empty list, and otherwise issues exactly one call, never a
\* second one, before it ends in Failed or Succeeded.
C6_GeneratePlanStages ==
    [][/\ pc = "Idle" => pc' \in {"Validating", "TipsDone"}
       /\ pc = "Validating" =>
             /\ calls = 0 /\ calls' = 0
             /\ errors' # <<>> =>
                   /\ pc' = "Failed"
                   /\ outcome'.raised
                   /\ FailureKind(outcome') = "validation"
                   /\ outcome'.message[2] = errors'
             /\ errors' = <<>> => pc' = "Requesting"
       /\ pc = "Requesting" =>
             /\ calls = 0 /\ calls' = 1
             /\ pc' \in {"Failed", "Succeeded"}
             /\ pc' = "Failed" =>
                   outcome'.raised /\ FailureKind(outcome') \in {"parse", "transport"}
             /\ pc' = "Succeeded" => ~outcome'.raised
       /\ pc \in {"Failed", "Succeeded"} => pc' = "Idle" /\ calls' = 0]_vars

\* C6's case: a generatePlan whose validate() returned violations has ended
C6_FailedValidationWithoutCall ==
    /\ pc = "Failed"
    /\ errors # <<>>
    /\ calls = 0
    /\ outcome.message[1] = MsgValidation

\* the text is valid structured data of the required shape: a JSON object
IsPlanObject(text) == JsonLoads(text).ok /\ JsonLoads(text).v.py = "dict"

PlanKeys ==
    {"itinerary", "accommodation_suggestions", "flight_suggestions", "recommendations"}

\* C7: text that is not valid structured data of the required shape ends
\* generatePlan in the ParseError failure, which differs from the failure of a
\* service error, and yields no plan; a parseable plan object, even with
\* fields missing, yields a plan with the missing fields empty or zero.
C7_MalformedTextIsParseError ==
    (pc \in {"Failed", "Succeeded"} /\ calls = 1) =>
        /\ response.status = "error" =>
              pc = "Failed" /\ FailureKind(outcome) = "transport"
        /\ (response.status = "ok" /\ response.has_content) =>
              IF IsPlanObject(response.content)
              THEN /\ pc = "Succeeded"
                   /\ ~outcome.raised
                   /\ LET d == JsonLoads(response.content).v.val
                      IN  /\ \A k \in PlanKeys \ DOMAIN d : outcome.value[k].val = <<>>
                          /\ "estimated_total_cost" \notin DOMAIN d =>
                                outcome.value.estimated_cost.val = 0
              ELSE /\ pc = "Failed"
                   /\ outcome.raised
                   /\ FailureKind(outcome) = "parse"

\* the violations in the order validate() reports them
ViolationOrder == <<MsgFormat, MsgPast, MsgOrder, MsgBudget, MsgTravelers, MsgDestination>>

Position(msg) == CHOOSE k \in 1..Len(ViolationOrder) : ViolationOrder[k] = msg

Blank(s) == \A i \in 1..Len(s) : s[i] \in Whitespace

\* validate() has returned for the preferences in prefs
Validated == pc \in {"Failed", "Requesting"} /\ now # Nil

DatesParse == Strptime(prefs.departure_date).ok /\ Strptime(prefs.return_date).ok

\* the departure date is strictly before the current date
DepartureBeforeToday == Strptime(prefs.departure_date).dt.day < now.day

ReturnAfterDeparture ==
    Strptime(prefs.return_date).dt.day > Strptime(prefs.departure_date).dt.day

\* C8: validate() runs every check and returns all violations in the order
\* dates, budget, travelers, destination; unparseable dates give exactly one
\* format violation and neither date-ordering violation, the budget, traveler
\* and destination violations are reported independently, and the result is
\* empty exactly when no check is violated.
C8_AllViolationsInOrder ==
    Validated =>
        /\ \A i \in 1..Len(errors) : InSeq(errors[i], ViolationOrder)
        /\ \A i, j \in 1..Len(errors) : i < j => Position(errors[i]) < Position(errors[j])
        /\ InSeq(MsgFormat, errors) <=> ~DatesParse
        /\ ~DatesParse => ~InSeq(MsgPast, errors) /\ ~InSeq(MsgOrder, errors)
        /\ InSeq(MsgBudget, errors) <=> prefs.budget <= 0
        /\ InSeq(MsgTravelers, errors) <=> prefs.travelers < 1
        /\ InSeq(MsgDestination, errors) <=> Blank(prefs.destination)
        /\ errors = <<>> <=>
              /\ DatesParse
              /\ ~DepartureBeforeToday
              /\ ReturnAfterDeparture
              /\ prefs.budget > 0
              /\ prefs.travelers >= 1
              /\ ~Blank(prefs.destination)

\* C9: validate() reports the past-date violation exactly when the departure
\* date is strictly before the current date; a departure on the current date
\* is accepted at any time of that day.
C9_PastOnlyBeforeToday ==
    (Validated /\ DatesParse) => (InSeq(MsgPast, errors) <=> DepartureBeforeToday)

NonBlankLine(l) == ~Blank(l)

\* C10: getTips() never raises; a failed service call gives a list of exactly
\* one element, the error description; a successful one gives the non-blank
\* lines of the text, in order, so no element of the list is empty.
C10_TipsNoEmptyLine ==
    pc = "TipsDone" =>
        /\ ~outcome.raised
        /\ response.status = "error" =>
              /\ Len(outcome.value) = 1
              /\ outcome.value[1] = <<MsgTips, response.error>>
        /\ (response.status = "ok" /\ response.has_content) =>
              /\ Len(outcome.value) =
                     Len(SelectSeq(Split(response.content, "\n"), NonBlankLine))
              /\ \A i \in 1..Len(outcome.value) : outcome.value[i] # <<>>

(***************************************************************************)
(* Properties of the session.                                              *)
(***************************************************************************)
\* a plan request is in progress or ends in this step
PlanRequestStep == pc \in {"Validating", "Requesting", "Failed", "Succeeded"} \/ pc' = "Validating"

\* C11: the current plan, none at first, changes only when a generatePlan
\* succeeds: a request that ends in a validation, parse or transport failure
\* leaves it as it was, a successful one replaces it wholesale with the new
\* plan, and no plan request changes the cart's items or total.
C11_PlanSlotChangesOnSuccessOnly ==
    /\ travel_plan = Nil
    /\ [][/\ travel_plan' # travel_plan => pc = "Succeeded" /\ pc' = "Idle"
          /\ (pc = "Failed" /\ pc' = "Idle") =>
                /\ FailureKind(outcome) \in {"validation", "parse", "transport"}
                /\ travel_plan' = travel_plan
          /\ (pc = "Succeeded" /\ pc' = "Idle") =>
                LET d == JsonLoads(response.content).v.val
                IN  /\ travel_plan'.destination = prefs.destination
                    /\ \A k \in PlanKeys :
                          travel_plan'[k] = IF k \in DOMAIN d THEN d[k] ELSE PyList(<<>>)
                    /\ travel_plan'.estimated_cost =
                           IF "estimated_total_cost" \in DOMAIN d
                           THEN d["estimated_total_cost"] ELSE PyInt(0)
          /\ PlanRequestStep => bookings' = bookings /\ total_cost' = total_cost]_vars

\* C11's case: a plan request has failed in a session that holds a plan and a
\* cart with bookings
C11_FailedWithPlanAndCart ==
    /\ pc = "Failed"
    /\ travel_plan # Nil
    /\ Len(bookings) >= 1

====
